---- MODULE Spec2Model ----
(***************************************************************************)
(* Expense-manager: the conversation router (core/router.py) over the      *)
(* persistence layer (core/db.py).  Every webhook invocation is a turn     *)
(* that runs in its own slot; each database call and each messaging call   *)
(* of a turn is one atomic step, so turns of different invocations         *)
(* interleave between calls.                                               *)
(***************************************************************************)
EXTENDS Integers, Sequences, FiniteSets, TLC

VARIABLES
    users,          \* table users: set of rows [user_id, username]
    user_states,    \* table user_states: set of rows
    transactions,   \* table transactions: sequence of rows, in id order
    screens,        \* messages the bot has sent to the chat, by message id:
                    \* [screen: what it shows, user_id: whose event it answered]
    turns,          \* slot -> the invocation running in it
    now,            \* CURRENT_TIMESTAMP of the database; it advances on its own
                    \* (StoreTick), and no code of the router reads a stamp
    started,        \* number of invocations begun so far
    last_write,     \* user -> arguments of the last committed state write, and
                    \* whether it replaced a record
    prompts         \* user -> number of btn_add_expense turns of the user that
                    \* wrote AWAITING_INPUT

vars == <<users, user_states, transactions, screens, turns, now, started, last_write,
          prompts>>

(* ------------------------------ bounds --------------------------------- *)
MaxTurns == 4       \* invocations in one behaviour
MaxRaceTurns == 2   \* invocations in one behaviour of the race specification
MaxClock == 3       \* the latest reading of the database clock

(* ------------------------------ inputs --------------------------------- *)
Users == {1, 2}
RaceUsers == {1}                \* the user whose events arrive near-simultaneously
Chats == {7}
Slots == {1, 2}                 \* two near-simultaneous events at most
None == 0                       \* Python None where an integer id is expected
NoNum == -1                     \* a token that is not a number

\* callback data of the buttons; btn_export is a button the router does not know
Buttons == {"btn_back_home", "btn_finances", "btn_refresh_finances",
            "btn_add_expense", "btn_members", "btn_join", "btn_settings",
            "btn_history", "btn_noop", "btn_leave", "btn_export"}

\* the buttons whose branch reads or writes a table: the ones that can race
StoreButtons == {"btn_back_home", "btn_finances", "btn_refresh_finances",
                 "btn_add_expense", "btn_members", "btn_join"}

\* from_user.username as Telegram delivers it ("" when the user has none)
UsernameInputs == {"", "User2"}

\* a text is a sequence of tokens <<lexeme, value in cents or NoNum>>
TextLunch == << <<"20", 2000>>, <<"lunch", NoNum>> >>
TextCoffee == << <<"15.50", 1550>>, <<"coffee", NoNum>>, <<"with", NoNum>>,
                 <<"Alice", NoNum>>, <<"and", NoNum>>, <<"Bob", NoNum>> >>
TextWords == << <<"lunch", NoNum>> >>
TextStart == << <<"/start", NoNum>> >>
Texts == {TextLunch, TextCoffee, TextWords, TextStart}
\* one text of each kind (an expense, no expense, the start command)
RaceTexts == {TextLunch, TextWords, TextStart}

(* ------------------------------ JSON data ------------------------------ *)
EmptyData == [k \in {} |-> None]
MsgData(m) == [k \in {"msg_id"} |-> m]
\* dict.get(key): the value, or None when the key is absent
DictGet(d, k) == IF k \in DOMAIN d THEN d[k] ELSE None

(* ------------------------------ core/db.py ----------------------------- *)
StateRows(tbl, user_id) == {r \in tbl : r.user_id = user_id}

\* SELECT state, data FROM user_states WHERE user_id = %s; default if no row
get_user_state(tbl, user_id) ==
    IF StateRows(tbl, user_id) # {}
    THEN LET r == CHOOSE r \in StateRows(tbl, user_id) : TRUE
         IN  [state |-> r.state, data |-> r.data]
    ELSE [state |-> "DASHBOARD", data |-> EmptyData]

\* the mutant: ON CONFLICT DO UPDATE that leaves the data column alone
update_user_state_keepdata(tbl, user_id, chat_id, state, data, ts) ==
    IF StateRows(tbl, user_id) # {}
    THEN {IF r.user_id = user_id
          THEN [r EXCEPT !.state = state, !.chat_id = chat_id, !.updated_at = ts]
          ELSE r : r \in tbl}
    ELSE tbl \cup {[user_id |-> user_id, chat_id |-> chat_id, state |-> state,
                    data |-> data, updated_at |-> ts]}

\* the mutant: a plain INSERT without the ON CONFLICT clause
update_user_state_insert(tbl, user_id, chat_id, state, data, ts) ==
    tbl \cup {[user_id |-> user_id, chat_id |-> chat_id, state |-> state,
               data |-> data, updated_at |-> ts]}

\* INSERT ... ON CONFLICT (user_id) DO UPDATE SET state, chat_id, data, updated_at
update_user_state(tbl, user_id, chat_id, state, data, ts) ==
    IF StateRows(tbl, user_id) # {}
    THEN {IF r.user_id = user_id
          THEN [r EXCEPT !.state = state, !.chat_id = chat_id,
                         !.data = data, !.updated_at = ts]
          ELSE r : r \in tbl}
    ELSE tbl \cup {[user_id |-> user_id, chat_id |-> chat_id, state |-> state,
                    data |-> data, updated_at |-> ts]}

\* transactions.user_id REFERENCES users(user_id)
ForeignKeyOk(utbl, user_id) == \E u \in utbl : u.user_id = user_id

\* the mutant: the insert replaces the newest row instead of adding one
add_transaction_replace(txs, user_id, amount, description, involved) ==
    LET row == [user_id |-> user_id, amount |-> amount,
                description |-> description,
                involved_users |-> involved]
    IN  IF txs = << >> THEN << row >> ELSE [txs EXCEPT ![Len(txs)] = row]

\* INSERT INTO transactions (user_id, amount, description, involved_users)
add_transaction(txs, user_id, amount, description, involved) ==
    Append(txs, [user_id |-> user_id, amount |-> amount,
                 description |-> description,
                 involved_users |-> involved])

RECURSIVE SumAmounts(_)
SumAmounts(rows) ==
    IF rows = << >> THEN 0 ELSE Head(rows).amount + SumAmounts(Tail(rows))

\* the rows of t JOIN users u ON t.user_id = u.user_id whose username is name
JoinedRows(txs, utbl, name) ==
    SelectSeq(txs, LAMBDA t : \E u \in utbl : u.user_id = t.user_id /\ u.username = name)

\* SELECT u.username, SUM(t.amount) ... JOIN users ... GROUP BY u.username
get_balances(txs, utbl) ==
    {<<name, SumAmounts(JoinedRows(txs, utbl, name))>> :
        name \in {u.username : u \in {v \in utbl : JoinedRows(txs, utbl, v.username) # << >>}}}

UserRows(utbl, user_id) == {r \in utbl : r.user_id = user_id}

\* registerParticipant(id, name): created on first join, name refreshed after
register_user(utbl, user_id, username) ==
    (utbl \ UserRows(utbl, user_id)) \cup {[user_id |-> user_id, username |-> username]}

\* listParticipants()
get_all_users(utbl) == {u.username : u \in utbl}

(* ------------------------------ core/parser.py ------------------------- *)
IsNumber(tok) == tok[2] # NoNum
IsWith(tok) == tok[1] \in {"with", "With", "WITH"}

RECURSIVE FirstNumber(_, _)
\* the least index i >= from of a numeric token, or 0
FirstNumber(text, from) ==
    IF from > Len(text) THEN 0
    ELSE IF IsNumber(text[from]) THEN from
    ELSE FirstNumber(text, from + 1)

RECURSIVE FirstWith(_, _)
\* the least index i >= from of the keyword "with", or 0
FirstWith(text, from) ==
    IF from > Len(text) THEN 0
    ELSE IF IsWith(text[from]) THEN from
    ELSE FirstWith(text, from + 1)

RECURSIVE JoinWords(_)
JoinWords(toks) ==
    IF toks = << >> THEN ""
    ELSE IF Len(toks) = 1 THEN Head(toks)[1]
    ELSE Head(toks)[1] \o " " \o JoinWords(Tail(toks))

RECURSIVE Names(_)
\* the participants after "with": split on "," and "and", empty tokens dropped
Names(toks) ==
    IF toks = << >> THEN << >>
    ELSE IF Head(toks)[1] \in {"and", ",", ""} THEN Names(Tail(toks))
    ELSE << Head(toks)[1] >> \o Names(Tail(toks))

NoParse == [ok |-> FALSE, amount |-> 0, description |-> "", involved_users |-> << >>]

\* parse(rawText) -> ParsedExpense | ParseFailure
parse_expense_text(text) ==
    LET n == FirstNumber(text, 1)
    IN  IF n = 0 THEN NoParse
        ELSE LET rest == SubSeq(text, 1, n - 1) \o SubSeq(text, n + 1, Len(text))
                 w == FirstWith(rest, 1)
                 before == IF w = 0 THEN rest ELSE SubSeq(rest, 1, w - 1)
                 after == IF w = 0 THEN << >> ELSE SubSeq(rest, w + 1, Len(rest))
             IN  IF text[n][2] <= 0 THEN NoParse
                 ELSE [ok |-> TRUE, amount |-> text[n][2],
                       description |-> IF before = << >> THEN "expense"
                                       ELSE JoinWords(before),
                       involved_users |-> Names(after)]

(* ------------------------------ core/ui.py ----------------------------- *)
\* a screen is a view with the rows it renders, each row <<text, number>>
Screen(view, rows) == [view |-> view, rows |-> rows]
ViewWelcome == Screen("WELCOME", {})
ViewAwaitingInput == Screen("AWAITING_INPUT", {})
ViewRetry == Screen("COULD_NOT_PARSE", {})
ViewSettings == Screen("SETTINGS", {})
ViewFinances(balances) == Screen("FINANCES", balances)
ViewFinancesRefreshed(balances) == Screen("FINANCES_UPDATED", balances)
ViewMembers(names) == Screen("MEMBERS", {<<n, 0>> : n \in names})
ViewSuccess(parsed) == Screen("RECORDED", {<<parsed.description, parsed.amount>>})
\* the screens that carry the prompt (Views.AWAITING_INPUT)
PromptViews == {"AWAITING_INPUT", "COULD_NOT_PARSE"}

(* ------------------------------ invocations ---------------------------- *)
NoWrite == [state |-> "", chat_id |-> None, data |-> EmptyData, replaced |-> FALSE]

Idle == [kind |-> "idle", pc |-> "idle", user_id |-> None, chat_id |-> None,
         message_id |-> None, data |-> "", username |-> "", text |-> << >>,
         state |-> "", dashboard_msg_id |-> None, parsed |-> NoParse,
         view |-> ViewWelcome, msg |-> None, toast |-> "", notice |-> "",
         schema_failed |-> FALSE,
         \* a call failed for a cause outside the program (connection, network),
         \* other than the two best-effort calls (toast, delete)
         fault |-> FALSE,
         \* what the stores held when the invocation began
         tx0 |-> 0, phase0 |-> "", anchor0 |-> None]

Finished(t) == t.pc \in {"idle", "done", "failed"}
InFlight == {s \in Slots : ~Finished(turns[s])}
\* an invocation takes the lowest slot that is not running
FreeSlot(s) == Finished(turns[s]) /\ \A r \in Slots : r < s => ~Finished(turns[r])

\* overlap = FALSE: one event at a time; TRUE: near-simultaneous events
CanBegin(overlap) ==
    IF overlap
    THEN started < MaxRaceTurns /\ InFlight # Slots
    ELSE started < MaxTurns /\ InFlight = {}

StoredPhase(user_id) == get_user_state(user_states, user_id).state
StoredAnchor(user_id) == DictGet(get_user_state(user_states, user_id).data, "msg_id")

Goto(s, pc) == turns' = [turns EXCEPT ![s].pc = pc]
\* an external call raised (connection lost, network error): the turn fails
Fail(s) == turns' = [turns EXCEPT ![s].pc = "failed", ![s].fault = TRUE]

\* a new invocation takes slot s; the locals of finished invocations are gone
Enter(s, t) ==
    turns' = [r \in Slots |-> IF r = s THEN t
                              ELSE IF Finished(turns[r]) THEN Idle ELSE turns[r]]

\* the write of one update_user_state call, as the database commits it
CommitState(user_id, chat_id, state, data) ==
    /\ user_states' = update_user_state(user_states, user_id, chat_id, state, data, now)
    /\ UNCHANGED now
    /\ last_write' = [last_write EXCEPT ![user_id] =
                         [state |-> state, chat_id |-> chat_id, data |-> data,
                          replaced |-> StateRows(user_states, user_id) # {}]]

\* Telegram rejects an edit that changes nothing ("Message is not modified");
\* any other edit may fail too (message deleted, too old, network)
EditOutcomes(message_id, view) ==
    IF screens[message_id].screen = view THEN {FALSE} ELSE BOOLEAN

\* send_message(text=view) in an invocation of user_id
Sent(view, user_id) == Append(screens, [screen |-> view, user_id |-> user_id])
\* edit_message_text(message_id, text=view)
Edited(message_id, view) == [screens EXCEPT ![message_id].screen = view]

(* ------------------------------ handle_callback ------------------------ *)
\* route_update: update.callback_query is set
BeginCallback(s, overlap) ==
    /\ CanBegin(overlap)
    /\ FreeSlot(s)
    /\ \E user_id \in Users, chat_id \in Chats, message_id \in 1..Len(screens),
          data \in Buttons, username \in UsernameInputs :
          /\ overlap => user_id \in RaceUsers /\ data \in StoreButtons
          /\ data # "btn_join" => username = ""
          /\ Enter(s, [Idle EXCEPT !.kind = "callback", !.pc = "answer",
                                   !.user_id = user_id, !.chat_id = chat_id,
                                   !.message_id = message_id, !.data = data,
                                   !.username = username,
                                   !.tx0 = Len(transactions),
                                   !.phase0 = StoredPhase(user_id),
                                   !.anchor0 = StoredAnchor(user_id)])
    /\ started' = started + 1
    /\ UNCHANGED <<users, user_states, transactions, screens, now, last_write, prompts>>

\* the branch of the routing logic taken after the toast
CallbackRoute(data) ==
    CASE data \in {"btn_back_home", "btn_add_expense"} -> "set_state"
      [] data \in {"btn_finances", "btn_refresh_finances"} -> "get_balances"
      [] data = "btn_members" -> "get_all_users"
      [] data = "btn_join" -> "register_user"
      [] data = "btn_settings" -> "edit"
      [] data \in {"btn_history", "btn_noop", "btn_leave"} -> "notice"
      [] OTHER -> "done"

\* query.answer(toast_msg) inside try/except: a failure is ignored
CbAnswer(s) ==
    LET t == turns[s] IN
    /\ t.kind = "callback" /\ t.pc = "answer"
    /\ \E ok \in BOOLEAN :
          turns' = [turns EXCEPT ![s] =
              [t EXCEPT !.toast = IF ok THEN (IF t.data = "btn_join" THEN "signing" ELSE "loading")
                                 ELSE "lost",
                        !.view = IF t.data = "btn_settings" THEN ViewSettings ELSE t.view,
                        !.pc = CallbackRoute(t.data)]]
    /\ UNCHANGED <<users, user_states, transactions, screens, now, started, last_write, prompts>>

\* the mutant: btn_add_expense keeps the anchor that was stored before
CbSetState_keepanchor(s) ==
    LET t == turns[s]
        phase == IF t.data = "btn_add_expense" THEN "AWAITING_INPUT" ELSE "DASHBOARD"
    IN
    /\ t.kind = "callback" /\ t.pc = "set_state"
    /\ \/ /\ CommitState(t.user_id, t.chat_id, phase, MsgData(StoredAnchor(t.user_id)))
          /\ prompts' = [prompts EXCEPT ![t.user_id] =
                             IF phase = "AWAITING_INPUT" THEN @ + 1 ELSE @]
          /\ turns' = [turns EXCEPT ![s] =
                 [t EXCEPT !.pc = "edit",
                           !.view = IF t.data = "btn_add_expense"
                                    THEN ViewAwaitingInput ELSE ViewWelcome]]
       \/ /\ Fail(s)
          /\ UNCHANGED <<user_states, now, last_write, prompts>>
    /\ UNCHANGED <<users, transactions, screens, started>>

\* update_user_state(user_id, chat_id, phase, {'msg_id': query.message.message_id})
CbSetState(s) ==
    LET t == turns[s]
        phase == IF t.data = "btn_add_expense" THEN "AWAITING_INPUT" ELSE "DASHBOARD"
    IN
    /\ t.kind = "callback" /\ t.pc = "set_state"
    /\ \/ /\ CommitState(t.user_id, t.chat_id, phase, MsgData(t.message_id))
          /\ prompts' = [prompts EXCEPT ![t.user_id] =
                             IF phase = "AWAITING_INPUT" THEN @ + 1 ELSE @]
          /\ turns' = [turns EXCEPT ![s] =
                 [t EXCEPT !.pc = "edit",
                           !.view = IF t.data = "btn_add_expense"
                                    THEN ViewAwaitingInput ELSE ViewWelcome]]
       \/ /\ Fail(s)
          /\ UNCHANGED <<user_states, now, last_write, prompts>>
    /\ UNCHANGED <<users, transactions, screens, started>>

\* balances = get_balances(); tree_view = generate_ascii_tree(balances)
CbGetBalances(s) ==
    LET t == turns[s]
        balances == get_balances(transactions, users)
    IN
    /\ t.kind = "callback" /\ t.pc = "get_balances"
    /\ \/ turns' = [turns EXCEPT ![s] =
              [t EXCEPT !.pc = "edit",
                        !.view = IF t.data = "btn_refresh_finances"
                                 THEN ViewFinancesRefreshed(balances)
                                 ELSE ViewFinances(balances)]]
       \/ Fail(s)
    /\ UNCHANGED <<users, user_states, transactions, screens, now, started, last_write, prompts>>

\* register_user(user_id, username, full_name)
CbRegisterUser(s) ==
    LET t == turns[s]
        username == IF t.username # "" THEN t.username
                    ELSE "User" \o ToString(t.user_id)
    IN
    /\ t.kind = "callback" /\ t.pc = "register_user"
    /\ \/ /\ users' = register_user(users, t.user_id, username)
          /\ Goto(s, "get_all_users")
       \/ /\ Fail(s)
          /\ UNCHANGED users
    /\ UNCHANGED <<user_states, transactions, screens, now, started, last_write, prompts>>

\* users = get_all_users(), then the member list text
CbGetAllUsers(s) ==
    LET t == turns[s] IN
    /\ t.kind = "callback" /\ t.pc = "get_all_users"
    /\ \/ turns' = [turns EXCEPT ![s] =
              [t EXCEPT !.pc = IF t.data = "btn_join" THEN "notice" ELSE "edit",
                        !.view = ViewMembers(get_all_users(users))]]
       \/ Fail(s)
    /\ UNCHANGED <<users, user_states, transactions, screens, now, started, last_write, prompts>>

\* the second query.answer (join, history, noop, leave): outside any try
CbNotice(s) ==
    LET t == turns[s] IN
    /\ t.kind = "callback" /\ t.pc = "notice"
    /\ \/ turns' = [turns EXCEPT ![s] =
              [t EXCEPT !.notice = t.data,
                        !.pc = IF t.data = "btn_join" THEN "edit" ELSE "done"]]
       \/ Fail(s)
    /\ UNCHANGED <<users, user_states, transactions, screens, now, started, last_write, prompts>>

\* the mutant: a failed edit fails the turn of every button
CbEdit_strict(s) ==
    LET t == turns[s] IN
    /\ t.kind = "callback" /\ t.pc = "edit"
    /\ \E ok \in EditOutcomes(t.message_id, t.view) :
          IF ok
          THEN /\ screens' = Edited(t.message_id, t.view)
               /\ Goto(s, "done")
          ELSE /\ UNCHANGED screens
               /\ turns' = [turns EXCEPT ![s] =
                      [t EXCEPT !.fault = @ \/ screens[t.message_id].screen # t.view,
                                !.pc = "failed"]]
    /\ UNCHANGED <<users, user_states, transactions, now, started, last_write, prompts>>

\* query.edit_message_text(...): only btn_refresh_finances ignores a failure
CbEdit(s) ==
    LET t == turns[s] IN
    /\ t.kind = "callback" /\ t.pc = "edit"
    /\ \E ok \in EditOutcomes(t.message_id, t.view) :
          IF ok
          THEN /\ screens' = Edited(t.message_id, t.view)
               /\ Goto(s, "done")
          ELSE /\ UNCHANGED screens
               /\ turns' = [turns EXCEPT ![s] =
                      [t EXCEPT !.fault = @ \/ screens[t.message_id].screen # t.view,
                                !.pc = IF t.data = "btn_refresh_finances"
                                       THEN "done" ELSE "failed"]]
    /\ UNCHANGED <<users, user_states, transactions, now, started, last_write, prompts>>

(* ------------------------------ handle_message ------------------------- *)
\* route_update: update.message.text is set
BeginMessage(s, overlap) ==
    /\ CanBegin(overlap)
    /\ FreeSlot(s)
    /\ \E user_id \in Users, chat_id \in Chats,
          text \in (IF overlap THEN RaceTexts ELSE Texts) :
          /\ overlap => user_id \in RaceUsers
          /\ Enter(s, [Idle EXCEPT !.kind = "message", !.pc = "delete",
                                !.user_id = user_id, !.chat_id = chat_id,
                                !.text = text,
                                !.tx0 = Len(transactions),
                                !.phase0 = StoredPhase(user_id),
                                !.anchor0 = StoredAnchor(user_id)])
    /\ started' = started + 1
    /\ UNCHANGED <<users, user_states, transactions, screens, now, last_write, prompts>>

\* update.message.delete() inside try/except: a failure is only logged
MsgDelete(s) ==
    LET t == turns[s] IN
    /\ t.kind = "message" /\ t.pc = "delete"
    /\ \E ok \in BOOLEAN : Goto(s, "get_user_state")
    /\ UNCHANGED <<users, user_states, transactions, screens, now, started, last_write, prompts>>

\* the mutant: a text that is no expense re-shows the prompt in any phase
MessageRoute_reprompt(state, dashboard_msg_id, text, parsed) ==
    IF state = "AWAITING_INPUT" /\ parsed.ok THEN "add_transaction"
    ELSE IF state # "AWAITING_INPUT" /\ text = TextStart THEN "init_db"
    ELSE IF dashboard_msg_id # None THEN "edit_retry" ELSE "done"

\* the branch handle_message takes on the state it read
MessageRoute(state, dashboard_msg_id, text, parsed) ==
    IF state = "AWAITING_INPUT"
    THEN IF parsed.ok THEN "add_transaction"
         ELSE IF dashboard_msg_id # None THEN "edit_retry" ELSE "done"
    ELSE IF text = TextStart THEN "init_db"
    ELSE "done"

\* the mutant: the read creates the default record it returns
MsgGetUserState_creates(s) ==
    LET t == turns[s]
        user_record == get_user_state(user_states, t.user_id)
        state == user_record.state
        dashboard_msg_id == DictGet(user_record.data, "msg_id")
        parsed == IF state = "AWAITING_INPUT" THEN parse_expense_text(t.text) ELSE NoParse
    IN
    /\ t.kind = "message" /\ t.pc = "get_user_state"
    /\ \/ /\ turns' = [turns EXCEPT ![s] =
                 [t EXCEPT !.state = state, !.dashboard_msg_id = dashboard_msg_id,
                           !.parsed = parsed,
                           !.pc = MessageRoute(state, dashboard_msg_id, t.text, parsed)]]
          /\ user_states' = IF StateRows(user_states, t.user_id) = {}
                            THEN update_user_state(user_states, t.user_id, t.chat_id,
                                                   state, user_record.data, now)
                            ELSE user_states
       \/ /\ Fail(s)
          /\ UNCHANGED user_states
    /\ UNCHANGED <<users, transactions, screens, now, started, last_write, prompts>>

\* user_record = get_user_state(user_id), then parse_expense_text(text) and the branch
MsgGetUserState(s) ==
    LET t == turns[s]
        user_record == get_user_state(user_states, t.user_id)
        state == user_record.state
        dashboard_msg_id == DictGet(user_record.data, "msg_id")
        parsed == IF state = "AWAITING_INPUT" THEN parse_expense_text(t.text) ELSE NoParse
    IN
    /\ t.kind = "message" /\ t.pc = "get_user_state"
    /\ \/ turns' = [turns EXCEPT ![s] =
              [t EXCEPT !.state = state, !.dashboard_msg_id = dashboard_msg_id,
                        !.parsed = parsed,
                        !.pc = MessageRoute(state, dashboard_msg_id, t.text, parsed)]]
       \/ Fail(s)
    /\ UNCHANGED <<users, user_states, transactions, screens, now, started, last_write, prompts>>

\* add_transaction(user_id, amount, description, involved_users); the insert
\* is rejected when user_id has no row in users (foreign key)
MsgAddTransaction(s) ==
    LET t == turns[s] IN
    /\ t.kind = "message" /\ t.pc = "add_transaction"
    /\ \/ /\ ForeignKeyOk(users, t.user_id)
          /\ transactions' = add_transaction(transactions, t.user_id, t.parsed.amount,
                                             t.parsed.description, t.parsed.involved_users)
          /\ Goto(s, "set_state")
       \/ /\ ~ForeignKeyOk(users, t.user_id)
          /\ Goto(s, "failed")
          /\ UNCHANGED transactions
       \/ /\ Fail(s)
          /\ UNCHANGED transactions
    /\ UNCHANGED <<users, user_states, screens, now, started, last_write, prompts>>

\* update_user_state(user_id, chat_id, 'DASHBOARD', {'msg_id': dashboard_msg_id})
MsgSetState(s) ==
    LET t == turns[s] IN
    /\ t.kind = "message" /\ t.pc = "set_state"
    /\ \/ /\ CommitState(t.user_id, t.chat_id, "DASHBOARD", MsgData(t.dashboard_msg_id))
          /\ turns' = [turns EXCEPT ![s] =
                 [t EXCEPT !.view = ViewSuccess(t.parsed),
                           !.pc = IF t.dashboard_msg_id # None THEN "edit" ELSE "done"]]
       \/ /\ Fail(s)
          /\ UNCHANGED <<user_states, now, last_write>>
    /\ UNCHANGED <<users, transactions, screens, started, prompts>>

\* the mutant: a failed edit of the anchor ends the turn, without the fallback
MsgEdit_nofallback(s) ==
    LET t == turns[s] IN
    /\ t.kind = "message" /\ t.pc = "edit"
    /\ \E ok \in EditOutcomes(t.dashboard_msg_id, t.view) :
          IF ok
          THEN /\ screens' = Edited(t.dashboard_msg_id, t.view)
               /\ Goto(s, "done")
          ELSE /\ UNCHANGED screens
               /\ Fail(s)
    /\ UNCHANGED <<users, user_states, transactions, now, started, last_write, prompts>>

\* context.bot.edit_message_text(message_id=dashboard_msg_id, text=success_text)
MsgEdit(s) ==
    LET t == turns[s] IN
    /\ t.kind = "message" /\ t.pc = "edit"
    /\ \E ok \in EditOutcomes(t.dashboard_msg_id, t.view) :
          IF ok
          THEN /\ screens' = Edited(t.dashboard_msg_id, t.view)
               /\ Goto(s, "done")
          ELSE /\ UNCHANGED screens
               /\ turns' = [turns EXCEPT ![s] =
                      [t EXCEPT !.fault = @ \/ screens[t.dashboard_msg_id].screen # t.view,
                                !.pc = "send"]]
    /\ UNCHANGED <<users, user_states, transactions, now, started, last_write, prompts>>

\* the fallback: context.bot.send_message(text=success_text)
MsgFallbackSend(s) ==
    LET t == turns[s] IN
    /\ t.kind = "message" /\ t.pc = "send"
    /\ \/ /\ screens' = Sent(t.view, t.user_id)
          /\ turns' = [turns EXCEPT ![s] = [t EXCEPT !.msg = Len(screens) + 1, !.pc = "done"]]
       \/ /\ Fail(s)
          /\ UNCHANGED screens
    /\ UNCHANGED <<users, user_states, transactions, now, started, last_write, prompts>>

\* the mutant: a failed parse drops the user back to the dashboard
MsgEditRetry_reset(s) ==
    LET t == turns[s] IN
    /\ t.kind = "message" /\ t.pc = "edit_retry"
    /\ CommitState(t.user_id, t.chat_id, "DASHBOARD", MsgData(t.dashboard_msg_id))
    /\ \E ok \in EditOutcomes(t.dashboard_msg_id, ViewRetry) :
          /\ screens' = IF ok THEN Edited(t.dashboard_msg_id, ViewRetry)
                        ELSE screens
          /\ turns' = [turns EXCEPT ![s] =
                 [t EXCEPT !.view = ViewRetry, !.pc = "done",
                           !.fault = @ \/ (~ok /\ screens[t.dashboard_msg_id].screen # ViewRetry)]]
    /\ UNCHANGED <<users, transactions, started, prompts>>

\* the parse failed: edit the anchor to the notice with the prompt, ignore a failure
MsgEditRetry(s) ==
    LET t == turns[s] IN
    /\ t.kind = "message" /\ t.pc = "edit_retry"
    /\ \E ok \in EditOutcomes(t.dashboard_msg_id, ViewRetry) :
          /\ screens' = IF ok THEN Edited(t.dashboard_msg_id, ViewRetry)
                        ELSE screens
          /\ turns' = [turns EXCEPT ![s] =
                 [t EXCEPT !.view = ViewRetry, !.pc = "done",
                           !.fault = @ \/ (~ok /\ screens[t.dashboard_msg_id].screen # ViewRetry)]]
    /\ UNCHANGED <<users, user_states, transactions, now, started, last_write, prompts>>

\* init_db(): the connection is opened outside the try, so a connection
\* failure is raised; a failing CREATE TABLE is logged and swallowed
init_db_outcomes == {"ok", "schema_error", "no_connection"}

MsgInitDb(s) ==
    LET t == turns[s] IN
    /\ t.kind = "message" /\ t.pc = "init_db"
    /\ \E outcome \in init_db_outcomes :
          turns' = [turns EXCEPT ![s] =
              [t EXCEPT !.schema_failed = (outcome = "schema_error"),
                        !.fault = (outcome # "ok"),
                        !.pc = IF outcome = "no_connection" THEN "failed"
                               ELSE "send_welcome"]]
    /\ UNCHANGED <<users, user_states, transactions, screens, now, started, last_write, prompts>>

\* msg = context.bot.send_message(text=Views.WELCOME)
MsgSendWelcome(s) ==
    LET t == turns[s] IN
    /\ t.kind = "message" /\ t.pc = "send_welcome"
    /\ \/ /\ screens' = Sent(ViewWelcome, t.user_id)
          /\ turns' = [turns EXCEPT ![s] =
                 [t EXCEPT !.msg = Len(screens) + 1, !.view = ViewWelcome,
                           !.pc = "set_state_start"]]
       \/ /\ Fail(s)
          /\ UNCHANGED screens
    /\ UNCHANGED <<users, user_states, transactions, now, started, last_write, prompts>>

\* update_user_state(user_id, chat_id, 'DASHBOARD', {'msg_id': msg.message_id})
MsgSetStateStart(s) ==
    LET t == turns[s] IN
    /\ t.kind = "message" /\ t.pc = "set_state_start"
    /\ \/ /\ CommitState(t.user_id, t.chat_id, "DASHBOARD", MsgData(t.msg))
          /\ Goto(s, "done")
       \/ /\ Fail(s)
          /\ UNCHANGED <<user_states, now, last_write>>
    /\ UNCHANGED <<users, transactions, screens, started, prompts>>

(* ------------------------------ specifications ------------------------- *)
Init ==
    /\ users = {}
    /\ user_states = {}
    /\ transactions = << >>
    /\ screens = << >>
    /\ turns = [s \in Slots |-> Idle]
    /\ now = 1
    /\ started = 0
    /\ last_write = [u \in Users |-> NoWrite]
    /\ prompts = [u \in Users |-> 0]

\* one step of the invocation in slot s
Step(s) ==
    \/ CbAnswer(s)
    \/ CbSetState(s)
    \/ CbGetBalances(s)
    \/ CbRegisterUser(s)
    \/ CbGetAllUsers(s)
    \/ CbNotice(s)
    \/ CbEdit(s)
    \/ MsgDelete(s)
    \/ MsgGetUserState(s)
    \/ MsgAddTransaction(s)
    \/ MsgSetState(s)
    \/ MsgEdit(s)
    \/ MsgFallbackSend(s)
    \/ MsgEditRetry(s)
    \/ MsgInitDb(s)
    \/ MsgSendWelcome(s)
    \/ MsgSetStateStart(s)

\* one event at a time: an invocation begins when no other is running
Next ==
    \E s \in Slots :
        \/ BeginCallback(s, FALSE)
        \/ BeginMessage(s, FALSE)
        \/ Step(s)

Spec == Init /\ [][Next]_vars

\* The race specification starts from the database as sequential turns of
\* user 1 on message 1 leave it: "/start"; then optionally btn_join; then
\* optionally (paid) btn_add_expense and the text "15.50 coffee with Alice
\* and Bob"; then optionally (awaiting) btn_add_expense.  From there the
\* invocations of near-simultaneous events of that user overlap.
SetupDb(joined, paid, awaiting) ==
    LET data == MsgData(1)
        phase == IF awaiting THEN "AWAITING_INPUT" ELSE "DASHBOARD"
        parsed == parse_expense_text(TextCoffee)
    IN
    /\ users = IF joined THEN {[user_id |-> 1, username |-> "User1"]} ELSE {}
    /\ user_states = {[user_id |-> 1, chat_id |-> 7, state |-> phase,
                       data |-> data, updated_at |-> 1]}
    /\ transactions = IF paid
                      THEN add_transaction(<< >>, 1, parsed.amount, parsed.description,
                                           parsed.involved_users)
                      ELSE << >>
    /\ screens = << [screen |-> IF awaiting THEN ViewAwaitingInput
                                 ELSE IF paid THEN ViewSuccess(parsed)
                                 ELSE IF joined THEN ViewMembers({"User1"})
                                 ELSE ViewWelcome,
                      user_id |-> 1] >>
    /\ now = 1
    /\ last_write = [u \in Users |->
                        IF u = 1 THEN [state |-> phase, chat_id |-> 7, data |-> data,
                                       replaced |-> paid \/ awaiting]
                        ELSE NoWrite]
    /\ prompts = [u \in Users |->
                     IF u = 1 THEN (IF paid THEN 1 ELSE 0) + (IF awaiting THEN 1 ELSE 0)
                     ELSE 0]

RaceInit ==
    /\ \E joined \in BOOLEAN, paid \in BOOLEAN, awaiting \in BOOLEAN :
          /\ paid => joined
          /\ SetupDb(joined, paid, awaiting)
    /\ turns = [s \in Slots |-> Idle]
    /\ started = 0

RaceNext ==
    \E s \in Slots :
        \/ BeginCallback(s, TRUE)
        \/ BeginMessage(s, TRUE)
        \/ Step(s)

RaceSpec == RaceInit /\ [][RaceNext]_vars

\* The store specification applies update_user_state to arguments drawn
\* from small sets, as any caller of the persistence layer may.
StoreChats == {7, 8}
StoreStates == {"DASHBOARD", "AWAITING_INPUT"}
StoreDatas == {EmptyData, MsgData(1), MsgData(2),
               [k \in {"msg_id", "note"} |-> 1]}

\* update_user_state(user_id, chat_id, state, data)
StoreUpdate ==
    /\ \E user_id \in Users, chat_id \in StoreChats, state \in StoreStates,
          data \in StoreDatas : CommitState(user_id, chat_id, state, data)
    /\ UNCHANGED <<users, transactions, screens, turns, started, prompts>>

\* the same call once more, with identical arguments
StoreRepeat ==
    /\ \E user_id \in Users :
          /\ last_write[user_id] # NoWrite
          /\ CommitState(user_id, last_write[user_id].chat_id,
                         last_write[user_id].state, last_write[user_id].data)
    /\ UNCHANGED <<users, transactions, screens, turns, started, prompts>>

\* time passes
StoreTick ==
    /\ now < MaxClock
    /\ now' = now + 1
    /\ UNCHANGED <<users, user_states, transactions, screens, turns, started, last_write, prompts>>

StoreNext == StoreUpdate \/ StoreRepeat \/ StoreTick

StoreSpec == Init /\ [][StoreNext]_vars

\* The ledger specification fills the participants and the ledger as
\* btn_join and the recorded expenses fill them, and reads the balances.
MaxRows == 3        \* transactions in the ledger of the ledger specification
LedgerTexts == {TextLunch, TextCoffee}

\* btn_join: register_user(user_id, username or f"User{user_id}", full_name)
LedgerJoin ==
    /\ \E user_id \in Users, username \in UsernameInputs :
          users' = register_user(users, user_id,
                                 IF username # "" THEN username
                                 ELSE "User" \o ToString(user_id))
    /\ UNCHANGED <<user_states, transactions, screens, turns, now, started, last_write, prompts>>

\* add_transaction(user_id, amount, description, involved_users) of a participant
LedgerPay ==
    /\ Len(transactions) < MaxRows
    /\ \E user_id \in Users, text \in LedgerTexts :
          LET parsed == parse_expense_text(text) IN
          /\ ForeignKeyOk(users, user_id)
          /\ transactions' = add_transaction(transactions, user_id, parsed.amount,
                                             parsed.description, parsed.involved_users)
    /\ UNCHANGED <<users, user_states, screens, turns, now, started, last_write, prompts>>

\* balances = get_balances(), rendered on the one screen
LedgerRead ==
    /\ screens' = << [screen |-> ViewFinances(get_balances(transactions, users)),
                      user_id |-> None] >>
    /\ UNCHANGED <<users, user_states, transactions, turns, now, started, last_write, prompts>>

LedgerNext == LedgerJoin \/ LedgerPay \/ LedgerRead

LedgerSpec == Init /\ [][LedgerNext]_vars

\* The calm specification: one event at a time, and every messaging call
\* (answer, edit, send) succeeds.  An edit that would change nothing cannot
\* succeed, so the turn that attempts it does not go on.
CalmStep(s) ==
    /\ Step(s)
    /\ turns'[s].toast # "lost"
    /\ turns[s].pc \in {"notice", "send", "send_welcome"} => turns'[s].pc # "failed"
    /\ turns[s].pc \in {"edit", "edit_retry"} => screens' # screens

CalmNext ==
    \E s \in Slots :
        \/ BeginCallback(s, FALSE)
        \/ BeginMessage(s, FALSE)
        \/ CalmStep(s)

CalmSpec == Init /\ [][CalmNext]_vars

(* ------------------------------ properties ----------------------------- *)
\* the last row of the ledger is the expense parsed from text, paid by user_id
LastRowIs(user_id, text) ==
    /\ transactions # << >>
    /\ LET row == transactions[Len(transactions)]
           parsed == parse_expense_text(text)
       IN  /\ row.user_id = user_id
           /\ row.amount = parsed.amount
           /\ row.description = parsed.description
           /\ row.involved_users = parsed.involved_users

\* C1: a text turn begun in AWAITING_INPUT whose text parses, and in which no
\* external call failed, ends with phase DASHBOARD and exactly one more
\* transaction, which carries the sender and the parsed fields; this holds
\* for every user, joined or not.
C1_ParsedTextIsRecorded ==
    \A s \in Slots :
        LET t == turns[s] IN
        (/\ t.kind = "message" /\ Finished(t) /\ ~t.fault
         /\ t.phase0 = "AWAITING_INPUT"
         /\ parse_expense_text(t.text).ok)
        => /\ StoredPhase(t.user_id) = "DASHBOARD"
           /\ Len(transactions) = t.tx0 + 1
           /\ LastRowIs(t.user_id, t.text)

\* the screens differ at most at message_id, which shows its old screen or view
OnlyEdited(message_id, view) ==
    /\ Len(screens') = Len(screens)
    /\ \A m \in 1..Len(screens) :
          \/ screens'[m] = screens[m]
          \/ m = message_id /\ screens'[m] = [screens[m] EXCEPT !.screen = view]

\* C2: every step of a text turn begun in AWAITING_INPUT whose text does not
\* parse leaves the state records, the ledger and the participants as they
\* were; the only thing it may change is the anchor message, to the notice
\* with the prompt; and the turn does not write on its way to its end.
C2_FailedParseKeepsState ==
    [][\A s \in Slots :
          LET t == turns[s] IN
          (/\ t.kind = "message" /\ ~Finished(t)
           /\ t.phase0 = "AWAITING_INPUT"
           /\ ~parse_expense_text(t.text).ok)
          => /\ user_states' = user_states
             /\ transactions' = transactions
             /\ users' = users
             /\ OnlyEdited(t.anchor0, ViewRetry)
             /\ StoredPhase(t.user_id) = "AWAITING_INPUT"
             /\ StoredAnchor(t.user_id) = t.anchor0]_vars

\* a failed parse has re-shown the prompt on the anchor and the turn is over
C2_Witness ==
    \E s \in Slots :
        LET t == turns[s] IN
        /\ t.kind = "message" /\ t.pc = "done"
        /\ t.phase0 = "AWAITING_INPUT" /\ ~parse_expense_text(t.text).ok
        /\ screens[t.anchor0].screen = ViewRetry
        /\ StoredPhase(t.user_id) = "AWAITING_INPUT"

\* C3: a btn_add_expense turn begun in DASHBOARD that completes ends with
\* phase AWAITING_INPUT and the anchor set to the pressed message.
C3_AddExpensePrompts ==
    \A s \in Slots :
        LET t == turns[s] IN
        (/\ t.kind = "callback" /\ t.pc = "done"
         /\ t.data = "btn_add_expense" /\ t.phase0 = "DASHBOARD")
        => /\ StoredPhase(t.user_id) = "AWAITING_INPUT"
           /\ StoredAnchor(t.user_id) = t.message_id

\* the pressed message is not the one that was the anchor before
C3_Witness ==
    \E s \in Slots :
        LET t == turns[s] IN
        /\ t.kind = "callback" /\ t.pc = "done"
        /\ t.data = "btn_add_expense" /\ t.phase0 = "DASHBOARD"
        /\ t.anchor0 # None /\ t.anchor0 # t.message_id
        /\ StoredAnchor(t.user_id) = t.message_id

\* C4: a turn with the text "/start" that completes, begun in any phase, ends
\* with phase DASHBOARD, one new screen message, the anchor naming that
\* message, and no new transaction.
C4_StartResets ==
    \A s \in Slots :
        LET t == turns[s] IN
        (t.kind = "message" /\ t.pc = "done" /\ t.text = TextStart)
        => /\ StoredPhase(t.user_id) = "DASHBOARD"
           /\ t.msg # None /\ t.msg = Len(screens)
           /\ StoredAnchor(t.user_id) = t.msg
           /\ Len(transactions) = t.tx0

\* the screen messages sent in the conversation of user_id
ScreensOf(user_id) == {m \in 1..Len(screens) : screens[m].user_id = user_id}

\* C5: a conversation never has more than one screen message, and when a
\* state with an anchor is stored the one it has is that anchor.
C5_OneLiveScreen ==
    \A u \in Users :
        /\ Cardinality(ScreensOf(u)) <= 1
        /\ (ScreensOf(u) # {} /\ StoredAnchor(u) # None)
              => ScreensOf(u) = {StoredAnchor(u)}

\* C6: a stored AWAITING_INPUT always has an anchor; the only step that
\* stores AWAITING_INPUT, or changes the anchor stored with it, is the write
\* of a btn_add_expense turn, which stores the pressed message and goes on
\* to show the prompt on that message.
C6_AwaitingHasPromptAnchor ==
    [][\A u \in Users :
          /\ StoredPhase(u) = "AWAITING_INPUT" => StoredAnchor(u) # None
          /\ StoredPhase(u)' = "AWAITING_INPUT" => StoredAnchor(u)' # None
          /\ (/\ StoredPhase(u)' = "AWAITING_INPUT"
              /\ StateRows(user_states, u) # StateRows(user_states', u))
             => \E s \in Slots :
                   /\ turns[s].kind = "callback" /\ turns[s].pc = "set_state"
                   /\ turns[s].data = "btn_add_expense" /\ turns[s].user_id = u
                   /\ StoredAnchor(u)' = turns[s].message_id
                   /\ turns'[s].pc = "edit"
                   /\ turns'[s].message_id = turns[s].message_id
                   /\ turns'[s].view = ViewAwaitingInput]_vars

\* AWAITING_INPUT is stored with a new anchor, and that message shows the prompt
C6_Witness ==
    \E s \in Slots :
        LET t == turns[s] IN
        /\ t.kind = "callback" /\ t.pc = "done" /\ t.data = "btn_add_expense"
        /\ StoredPhase(t.user_id) = "AWAITING_INPUT"
        /\ StoredAnchor(t.user_id) = t.message_id
        /\ t.anchor0 # t.message_id
        /\ screens[t.message_id].screen = ViewAwaitingInput

\* C7: every step keeps every transaction of the ledger, in place and unchanged.
C7_LedgerAppendOnly ==
    [][/\ Len(transactions') >= Len(transactions)
       /\ SubSeq(transactions', 1, Len(transactions)) = transactions]_vars

\* a transaction was appended to a ledger that already held one
C7_Witness ==
    /\ Len(transactions) >= 2
    /\ \A i \in 1..Len(transactions) : ForeignKeyOk(users, transactions[i].user_id)

\* C8: update_user_state is a full-replacement upsert: a user never has two
\* rows, get_user_state returns exactly the state and data of the last call
\* for the user, and a second call with the same arguments returns the same.
C8_UpsertReplaces ==
    \A u \in Users :
        /\ Cardinality(StateRows(user_states, u)) <= 1
        /\ last_write[u] = NoWrite => StateRows(user_states, u) = {}
        /\ last_write[u] # NoWrite =>
              get_user_state(user_states, u) =
                  [state |-> last_write[u].state, data |-> last_write[u].data]
        /\ \A chat_id \in StoreChats, state \in StoreStates, data \in StoreDatas :
              LET once == update_user_state(user_states, u, chat_id, state, data, now)
                  twice == update_user_state(once, u, chat_id, state, data, now + 1)
              IN  /\ get_user_state(twice, u) = get_user_state(once, u)
                  /\ get_user_state(once, u) = [state |-> state, data |-> data]
                  /\ Cardinality(StateRows(twice, u)) = 1

\* a later call replaced a user's record, and the record holds the empty
\* data of that call and its time
C8_Witness ==
    \E u \in Users :
        /\ last_write[u].replaced
        /\ get_user_state(user_states, u) = [state |-> "DASHBOARD", data |-> EmptyData]
        /\ \E r \in StateRows(user_states, u) : r.updated_at = now /\ now > 1

\* C9: reading the state of a user without a record yields phase DASHBOARD
\* and no anchor, and the read leaves the table of states as it was.
C9_DefaultStateOnRead ==
    [][\A s \in Slots :
          (/\ turns[s].kind = "message" /\ turns[s].pc = "get_user_state"
           /\ turns'[s].pc # "get_user_state")
          => /\ user_states' = user_states
             /\ (StateRows(user_states, turns[s].user_id) = {} /\ turns'[s].pc # "failed")
                   => /\ turns'[s].state = "DASHBOARD"
                      /\ turns'[s].dashboard_msg_id = None
                      /\ get_user_state(user_states, turns[s].user_id)
                            = [state |-> "DASHBOARD", data |-> EmptyData]]_vars

\* a text turn of a user without a record read the default and ended; no
\* record was created
C9_Witness ==
    \E s \in Slots :
        LET t == turns[s] IN
        /\ t.kind = "message" /\ t.pc = "done" /\ t.text = TextWords
        /\ t.state = "DASHBOARD"
        /\ StateRows(user_states, t.user_id) = {}
        /\ user_states # {}

\* the record an invocation writes, if it writes one
Writes(t) ==
    \/ t.kind = "callback" /\ t.data \in {"btn_back_home", "btn_add_expense"}
    \/ t.kind = "message" /\ t.state = "AWAITING_INPUT" /\ t.parsed.ok
    \/ t.kind = "message" /\ t.state = "DASHBOARD" /\ t.text = TextStart
Written(t) ==
    [state |-> IF t.kind = "callback" /\ t.data = "btn_add_expense"
               THEN "AWAITING_INPUT" ELSE "DASHBOARD",
     data |-> MsgData(IF t.kind = "callback" THEN t.message_id
                      ELSE IF t.state = "AWAITING_INPUT" THEN t.dashboard_msg_id
                      ELSE t.msg)]

\* C10: whatever the interleaving, a user has exactly one record and it is
\* the whole record (phase, chat and data together) of the state write that
\* committed last for the user.
C10_LastWriteWins ==
    \A u \in Users :
        last_write[u] # NoWrite =>
            /\ Cardinality(StateRows(user_states, u)) = 1
            /\ \A r \in StateRows(user_states, u) :
                  /\ r.state = last_write[u].state
                  /\ r.chat_id = last_write[u].chat_id
                  /\ r.data = last_write[u].data

\* two overlapping turns of one user both wrote, different records, and the
\* stored record is the one of the turn in the second slot
C10_Witness ==
    /\ turns[1].pc = "done" /\ turns[2].pc = "done"
    /\ turns[1].user_id = turns[2].user_id
    /\ Writes(turns[1]) /\ Writes(turns[2])
    /\ Written(turns[1]).state # Written(turns[2]).state
    /\ Written(turns[1]).data # Written(turns[2]).data
    /\ get_user_state(user_states, turns[2].user_id) = Written(turns[2])

\* the payers of the ledger, and the transactions of one payer
Payers(txs) == {txs[i].user_id : i \in 1..Len(txs)}
PaidBy(txs, user_id) == SelectSeq(txs, LAMBDA t : t.user_id = user_id)

\* C11: get_balances has exactly one entry per distinct payer who has a
\* participant record, the entry carries that payer's name and the sum of
\* that payer's amounts, no entry belongs to anyone else, and two payers
\* never share an entry.
C11_BalancesPerPayer ==
    LET balances == get_balances(transactions, users)
        known == {u \in Payers(transactions) : ForeignKeyOk(users, u)}
    IN  /\ Cardinality(balances) = Cardinality(known)
        /\ \A u \in known :
              \E r \in UserRows(users, u) :
                 <<r.username, SumAmounts(PaidBy(transactions, u))>> \in balances
        /\ \A e \in balances :
              \E u \in known : \E r \in UserRows(users, u) : e[1] = r.username

\* C12: in a button turn the toast is answered before the turn writes the
\* state, registers a participant or edits a screen, and no step that issues
\* an acknowledgement (the toast, or the later confirmation or notice) ends
\* the turn as failed.
C12_AckFirstAndNonFatal ==
    [][\A s \in Slots :
          LET t == turns[s] IN
          /\ (t.kind = "callback" /\ t.pc \in {"answer", "notice"})
                => turns'[s].pc # "failed"
          /\ (/\ t.kind = "callback" /\ ~Finished(t)
              /\ (user_states' # user_states \/ users' # users \/ screens' # screens))
                => t.toast # ""]_vars

\* the buttons whose branch shows a screen; every other callback data is an
\* action the router does not carry out
RoutedButtons == {"btn_back_home", "btn_finances", "btn_refresh_finances",
                  "btn_add_expense", "btn_members", "btn_join", "btn_settings"}

\* C13: a button turn whose action is not carried out changes no table and
\* no screen, never fails, and when it ends it has answered with a notice
\* that the action is not available.
C13_UnknownButtonIsNoop ==
    [][\A s \in Slots :
          LET t == turns[s] IN
          (t.kind = "callback" /\ ~Finished(t) /\ t.data \notin RoutedButtons)
          => /\ user_states' = user_states
             /\ users' = users
             /\ transactions' = transactions
             /\ screens' = screens
             /\ turns'[s].pc # "failed"
             /\ turns'[s].pc = "done" => turns'[s].notice # ""]_vars

\* C14: once a text turn has appended the parsed expense and written
\* DASHBOARD, the success screen reaches the user: the write is followed by
\* the edit of the anchor; a failed edit is followed by the send of exactly
\* one new message with the success screen; the turn fails only when that
\* send fails; and none of these steps touches the appended transaction or
\* the written state.
C14_SuccessScreenReaches ==
    [][\A s \in Slots :
          LET t == turns[s]
              success == ViewSuccess(t.parsed)
          IN
          /\ (t.kind = "message" /\ t.pc = "set_state")
                => turns'[s].pc \in {"edit", "failed"}
          /\ (t.kind = "message" /\ t.pc \in {"edit", "send"})
                => /\ transactions' = transactions
                   /\ user_states' = user_states
                   /\ Len(transactions) = t.tx0 + 1
                   /\ LastRowIs(t.user_id, t.text)
                   /\ StoredPhase(t.user_id) = "DASHBOARD"
          /\ (t.kind = "message" /\ t.pc = "edit")
                => \/ /\ turns'[s].pc = "done"
                      /\ screens' = Edited(t.dashboard_msg_id, success)
                   \/ /\ turns'[s].pc = "send"
                      /\ screens' = screens
          /\ (t.kind = "message" /\ t.pc = "send")
                => \/ /\ turns'[s].pc = "done"
                      /\ screens' = Sent(success, t.user_id)
                   \/ /\ turns'[s].pc = "failed"
                      /\ screens' = screens]_vars

\* the edit of the anchor failed, the success screen went out as a new
\* message, and the transaction and the DASHBOARD state are in place
C14_Witness ==
    \E s \in Slots :
        LET t == turns[s] IN
        /\ t.kind = "message" /\ t.pc = "done" /\ t.parsed.ok
        /\ t.msg # None /\ t.msg = Len(screens)
        /\ screens[t.msg].screen = ViewSuccess(t.parsed)
        /\ screens[t.dashboard_msg_id].screen # ViewSuccess(t.parsed)
        /\ Len(transactions) = t.tx0 + 1
        /\ StoredPhase(t.user_id) = "DASHBOARD"

\* C15: a turn in which a persistence operation failed sends or edits no
\* screen afterwards and ends as a failed turn; here for the schema ensure
\* of the start command, whose failure the turn records.
C15_PersistenceFailureFailsTurn ==
    \A s \in Slots :
        LET t == turns[s] IN
        (t.kind = "message" /\ t.schema_failed)
        => /\ t.msg = None
           /\ Finished(t) => t.pc = "failed"

\* the buttons that only render a view of the tables
ViewButtons == {"btn_finances", "btn_refresh_finances", "btn_members", "btn_join"}

\* C16: no step of a finances, refresh_finances, members or join turn writes
\* the state records or the ledger, so the stored phase and anchor stay those
\* the turn found, in either phase; and the edit step of a refresh_finances
\* turn ends the turn as done whether the edit succeeds or fails.
C16_ViewButtonsKeepState ==
    [][\A s \in Slots :
          LET t == turns[s] IN
          (t.kind = "callback" /\ ~Finished(t) /\ t.data \in ViewButtons)
          => /\ user_states' = user_states
             /\ transactions' = transactions
             /\ StoredPhase(t.user_id)' = t.phase0
             /\ StoredAnchor(t.user_id)' = t.anchor0
             /\ (t.data = "btn_refresh_finances" /\ t.pc = "edit")
                   => turns'[s].pc = "done"]_vars

\* a refresh_finances turn handled in AWAITING_INPUT ended as done although
\* its edit failed, and the phase and the anchor are those it found
C16_Witness ==
    \E s \in Slots :
        LET t == turns[s] IN
        /\ t.kind = "callback" /\ t.pc = "done" /\ t.data = "btn_refresh_finances"
        /\ t.fault
        /\ t.phase0 = "AWAITING_INPUT"
        /\ StoredPhase(t.user_id) = "AWAITING_INPUT"
        /\ StoredAnchor(t.user_id) = t.anchor0
        /\ screens[t.message_id].screen.view # "FINANCES_UPDATED"

\* C17: a btn_back_home turn begun in AWAITING_INPUT appends nothing and,
\* when it completes, leaves phase DASHBOARD with the pressed message as
\* anchor; the text turn of that user that begins next finds phase
\* DASHBOARD; and a text turn that found DASHBOARD, with a text other than
\* "/start", appends nothing.
C17_BackHomeCancels ==
    [][\A s \in Slots :
          LET t == turns[s]
              n == turns'[s]
              cancel == /\ t.kind = "callback" /\ t.data = "btn_back_home"
                        /\ t.phase0 = "AWAITING_INPUT"
          IN
          /\ (cancel /\ ~Finished(t))
                => /\ transactions' = transactions
                   /\ n.pc = "done"
                         => /\ StoredPhase(t.user_id)' = "DASHBOARD"
                            /\ StoredAnchor(t.user_id)' = t.message_id
                            /\ Len(transactions') = t.tx0
          /\ (/\ cancel /\ t.pc = "done"
              /\ n.kind = "message" /\ n.pc = "delete" /\ n.user_id = t.user_id)
                => n.phase0 = "DASHBOARD"
          /\ (/\ t.kind = "message" /\ ~Finished(t)
              /\ t.phase0 = "DASHBOARD" /\ t.text # TextStart)
                => transactions' = transactions]_vars

\* the user went home from the prompt: the phase is DASHBOARD, the anchor is
\* the pressed message, it shows the welcome screen and the ledger is empty
C17_Witness ==
    \E s \in Slots :
        LET t == turns[s] IN
        /\ t.kind = "callback" /\ t.pc = "done" /\ t.data = "btn_back_home"
        /\ t.phase0 = "AWAITING_INPUT"
        /\ transactions = << >>
        /\ StoredPhase(t.user_id) = "DASHBOARD"
        /\ StoredAnchor(t.user_id) = t.message_id
        /\ screens[t.message_id].screen = ViewWelcome

\* C18: a text turn that reads phase DASHBOARD, with a text other than
\* "/start", ends at once: its steps change no table and no screen; and the
\* only step that ever changes the ledger is the append of a text turn that
\* read AWAITING_INPUT and whose text is not "/start".
C18_DashboardTextIsIgnored ==
    [][/\ \A s \in Slots :
             LET t == turns[s]
                 n == turns'[s]
             IN
             /\ (/\ t.kind = "message" /\ t.pc = "get_user_state" /\ n.pc # t.pc
                 /\ StoredPhase(t.user_id) = "DASHBOARD" /\ t.text # TextStart)
                   => n.pc \in {"done", "failed"}
             /\ (/\ t.kind = "message" /\ t.pc \in {"delete", "get_user_state"}
                 /\ n.pc # t.pc)
                   => /\ user_states' = user_states
                      /\ users' = users
                      /\ transactions' = transactions
                      /\ screens' = screens
       /\ transactions' # transactions
             => \E s \in Slots :
                   /\ turns[s].kind = "message" /\ turns[s].pc = "add_transaction"
                   /\ turns[s].state = "AWAITING_INPUT"
                   /\ turns[s].text # TextStart
                   /\ turns'[s].pc = "set_state"]_vars

\* a participant who has an anchor sent "20 lunch" in DASHBOARD: the turn is
\* over and the ledger is as it was
C18_Witness ==
    \E s \in Slots :
        LET t == turns[s] IN
        /\ t.kind = "message" /\ t.pc = "done" /\ t.text = TextLunch
        /\ t.state = "DASHBOARD" /\ t.dashboard_msg_id # None
        /\ ForeignKeyOk(users, t.user_id)
        /\ Len(transactions) = t.tx0

\* C19: whatever the interleaving, a user never has more transactions in the
\* ledger than btn_add_expense turns of the user that wrote AWAITING_INPUT.
C19_OnePromptOneTransaction ==
    \A u \in Users : Len(PaidBy(transactions, u)) <= prompts[u]

\* C20: between turns, a user in AWAITING_INPUT has an anchor that shows the
\* prompt (or the parse-failure notice with the prompt), and a user in
\* DASHBOARD has no screen message that shows the prompt.
C20_PhaseMatchesScreen ==
    InFlight = {} =>
        \A u \in Users :
            /\ StoredPhase(u) = "AWAITING_INPUT"
                  => /\ StoredAnchor(u) \in 1..Len(screens)
                     /\ screens[StoredAnchor(u)].screen.view \in PromptViews
            /\ StoredPhase(u) = "DASHBOARD"
                  => \A m \in ScreensOf(u) : screens[m].screen.view \notin PromptViews

====
